---- MODULE Spec2Model ----
(***************************************************************************)
(* A model of MineruAPIClient (summeryanyfile/core/mineru_api_client.py):  *)
(* the task lifecycle submit -> poll -> fetch, the lazily created pooled   *)
(* HTTP connection and close().                                            *)
(*                                                                         *)
(* Callers are asyncio tasks sharing one client instance.  An action is    *)
(* the code a task runs between two suspension points (an awaited HTTP     *)
(* request, asyncio.sleep, aclose); the remote service, the artifact host  *)
(* and the clock are the environment and choose their answers freely.      *)
(*                                                                         *)
(* JSON values: an optional key is <<>> (absent) or <<v>> (present).  A    *)
(* string the code inspects by suffix (a URL, an archive entry name) is a  *)
(* sequence of tokens whose last token is the suffix that is tested.       *)
(***************************************************************************)
EXTENDS Integers, Sequences, FiniteSets, TLC

\* ------------------------------------------------------------------ bounds
NumCallers == 2          \* concurrent tasks using the client
MaxCalls == 3            \* API calls started in one run, over all callers
MaxQueries == 3          \* status queries one wait_for_result may issue

\* ------------------------------------------------------- program constants
DEFAULT_POLL_INTERVAL == 3
DEFAULT_MAX_WAIT_TIME == 300
None == 0                \* self._client = None

Callers == 1..NumCallers
Solo == {1}

\* ------------------------------------------------------------ environment
\* Time an awaited request may take; the long one outlasts the default wait.
Durations == {0, 1, DEFAULT_MAX_WAIT_TIME + 1}
\* How much later than asked asyncio.sleep may resume.
Lateness == {0, 1}

\* file_path arguments: None, "", a path that does not exist, a regular
\* file, a directory (exists, cannot be opened for reading).
NoArg == "<None>"
FilePaths == {NoArg, "", "missing.pdf", "doc.pdf", "folder"}
ExistingPaths == {"doc.pdf", "folder"}
ReadablePaths == {"doc.pdf"}
PdfUrls == {NoArg, "", "http://host/a.pdf"}

\* (poll_interval, max_wait_time) of a direct wait_for_result call
WaitParams == {<<3, 5>>, <<2, 4>>, <<1, 0>>}

\* explicit constructor argument and environment variable MINERU_API_KEY
ApiKeyArgs == {NoArg, "", "key-arg"}
ApiKeyEnv == {NoArg, "key-env"}

\* ---------------------------------------------------------- JSON helpers
Absent == <<>>
Some(v) == <<v>>
\* dict.get(key, default)
Get(o, default) == IF o = Absent THEN default ELSE o[1]
\* Python truthiness of an optional string of tokens / of an atomic string
TruthyTokens(o) == o # Absent /\ o[1] # <<>>
TruthyStr(s) == s # NoArg /\ s # ""
\* a or b
OrTokens(a, b) == IF TruthyTokens(a) THEN a ELSE b
OrStr(a, b) == IF TruthyStr(a) THEN a ELSE b
\* str.endswith(suffix) on a token string
EndsWith(s, suffix) == Len(s) > 0 /\ s[Len(s)] = suffix


\* ------------------------------------------------- what the service answers
\* data of a status response: every key optional, as on the wire
Data(state, err_msg, full_zip_url, md_url, markdown, pages, processing_time) ==
    [state |-> state, err_msg |-> err_msg, full_zip_url |-> full_zip_url,
     md_url |-> md_url, markdown |-> markdown, pages |-> pages,
     processing_time |-> processing_time]
\* result.get("data", {}) when the key is missing
EmptyData == Data(Absent, Absent, Absent, Absent, Absent, Absent, Absent)
InState(s) == Data(Some(s), Absent, Absent, Absent, Absent, Absent, Absent)

ZipUrl == <<"http://cdn/out", ".zip">>
MdUrl == <<"http://cdn/full", ".md">>
SignedZipUrl == <<"http://cdn/out", ".zip", "?sig=1">>
MdUrlZip == <<"http://cdn/md", ".zip">>

DoneData ==
    { Data(Some("done"), Absent, Absent, Absent, Some("# Inline"), Some(2), Some("1.5")),
      Data(Some("done"), Absent, Absent, Absent, Absent, Absent, Absent),
      Data(Some("done"), Absent, Absent, Some(MdUrl), Absent, Some(2), Absent),
      Data(Some("done"), Absent, Some(ZipUrl), Absent, Absent, Some(2), Absent),
      Data(Some("done"), Absent, Some(ZipUrl), Some(MdUrl), Some("# Inline"), Absent, Absent),
      Data(Some("done"), Absent, Some(<<>>), Some(MdUrl), Some("# Inline"), Absent, Absent),
      Data(Some("done"), Absent, Some(<<>>), Absent, Some("# Inline"), Absent, Absent),
      Data(Some("done"), Absent, Some(SignedZipUrl), Absent, Absent, Absent, Absent),
      Data(Some("done"), Absent, Absent, Some(MdUrlZip), Absent, Absent, Absent) }
FailedData ==
    { Data(Some("failed"), Some("bad scan"), Absent, Absent, Absent, Absent, Absent),
      Data(Some("failed"), Absent, Absent, Absent, Absent, Absent, Absent) }
ProgressData ==
    { InState("running"), InState("pending"), InState("Done"), EmptyData }

\* A response to an awaited request.  http: "error" the request raised
\* (connect/read failure, timeout, closed client), "status" a non-2xx reply
\* (raise_for_status), "badjson" a 2xx reply that response.json() rejects,
\* "ok" a 2xx reply with the JSON envelope {code, msg, data}.
Reply(http, status, err, code, msg, task_id, data) ==
    [http |-> http, status |-> status, err |-> err, code |-> code, msg |-> msg,
     task_id |-> task_id, data |-> data]
FailedReplies ==
    { Reply("error", 0, "ConnectError", Absent, Absent, Absent, Absent),
      Reply("status", 500, "", Absent, Absent, Absent, Absent),
      Reply("badjson", 200, "JSONDecodeError", Absent, Absent, Absent, Absent) }
Envelope(code, msg, task_id, data) == Reply("ok", 200, "", code, msg, task_id, data)

\* replies to POST /extract/task; fresh is the identifier the service issues
PostReplies(fresh) ==
    FailedReplies \cup
    { Envelope(Some(0), Absent, Some(fresh), Absent),
      Envelope(Some(0), Some("ok"), Some(<<>>), Absent),
      Envelope(Some(0), Absent, Absent, Absent),
      Envelope(Some(1), Some("quota exceeded"), Absent, Absent),
      Envelope(Some(1), Absent, Some(fresh), Absent),
      Envelope(Absent, Absent, Some(fresh), Absent) }

\* replies to GET /extract/task/{task_id}
GetReplies ==
    FailedReplies \cup
    { Envelope(Some(0), Absent, Absent, Some(d)) : d \in DoneData \cup FailedData \cup ProgressData } \cup
    { Envelope(Some(0), Absent, Absent, Absent),
      Envelope(Some(1), Some("busy"), Absent, Some(InState("running"))),
      Envelope(Some(1), Absent, Absent,
               Some(Data(Some("done"), Absent, Absent, Absent, Some("# Inline"), Absent, Absent))),
      Envelope(Some(1), Some("denied"), Absent,
               Some(Data(Some("failed"), Some("bad scan"), Absent, Absent, Absent, Absent, Absent))),
      Envelope(Absent, Absent, Absent, Some(InState("done"))) }

\* Bytes: whether they are valid UTF-8, the text they then decode to, and the
\* text a lenient decoder (response.text) makes of them.
Bytes(utf8, text, lossy) == [utf8 |-> utf8, text |-> text, lossy |-> lossy]
Entry(name, bytes) == [name |-> name, bytes |-> bytes]
\* body of an artifact download: a zip archive (its entries in archive order)
\* or not, and the raw bytes
Body(isZip, entries, raw) == [isZip |-> isZip, entries |-> entries, raw |-> raw]
ZipRaw == Bytes(FALSE, "", "PK??")
Hello == Bytes(TRUE, "Hello", "Hello")
Bodies ==
    { Body(TRUE, << Entry(<<"images/a", ".png">>, ZipRaw),
                    Entry(<<"report", ".md">>, Hello),
                    Entry(<<"full", ".md">>, Bytes(TRUE, "Second", "Second")) >>, ZipRaw),
      Body(TRUE, << Entry(<<"README", ".MD">>, Hello),
                    Entry(<<"layout", ".json">>, Hello) >>, ZipRaw),
      Body(TRUE, << Entry(<<"bad", ".md">>, Bytes(FALSE, "", "caf?")),
                    Entry(<<"report", ".md">>, Hello) >>, ZipRaw),
      Body(TRUE, << >>, ZipRaw),
      Body(FALSE, << >>, Bytes(TRUE, "# Raw", "# Raw")),
      Body(FALSE, << >>, Bytes(FALSE, "", "caf?")) }
Download(http, body) == [http |-> http, body |-> body]
DownloadReplies ==
    { Download("error", Body(FALSE, << >>, Hello)),
      Download("status", Body(FALSE, << >>, Hello)) } \cup
    { Download("ok", b) : b \in Bodies }


\* ------------------------------------------------------------------ state
VARIABLES
    api_key,      \* self.api_key
    _client,      \* self._client: None, or the pooled connection it references
    conns,        \* every pooled connection created so far: "open" or "closed"
    clock,        \* clock[p]: time.time() as caller p reads it, counted from the
                  \* start of p's current call (only differences are ever used)
    nextTask,     \* how many task identifiers the service has issued
    calls,        \* how many API calls have been started
    fr            \* fr[p]: the frame of caller p's current call

vars == <<api_key, _client, conns, clock, nextTask, calls, fr>>

\* what a call ended with: nothing yet, a return, or a raised exception whose
\* message is kept as the pieces the f-string joins
NoOutcome == [status |-> "none", type |-> "", msg |-> <<>>]
Returned == [status |-> "returned", type |-> "", msg |-> <<>>]
Raised(type, msg) == [status |-> "raised", type |-> type, msg |-> msg]
\* the value returned: (markdown_content, extra_info) of extract_markdown,
\* data of wait_for_result
NoRet == [content |-> "", task_id |-> <<>>, pages |-> 0,
          processing_time |-> Absent, data |-> Absent]

\* History kept beside the frame, for stating properties; the code never
\* reads it.  log: what the call did, in order: a pooled connection created
\* ("connect"), a request sent on a connection ("POST", "GET"), a suspension
\* asked of asyncio.sleep ("sleep"), an artifact download ("fetch").  seen:
\* what each answered request meant (Meaning below).  exact: every request
\* so far was answered instantly and every sleep resumed on time.  got: the
\* reply to the artifact download, once it is there.  overdue: the last
\* status answer arrived after the deadline had passed.
Event(ev, conn, what, d) == [ev |-> ev, conn |-> conn, what |-> what, d |-> d]

IdleFrame ==
    [pc |-> "idle", op |-> "", file_path |-> NoArg, pdf_url |-> NoArg,
     task_id |-> <<>>, poll_interval |-> 0, max_wait_time |-> 0,
     start_time |-> 0, elapsed |-> 0, md_url |-> <<>>, due |-> 0,
     outcome |-> NoOutcome, ret |-> NoRet, log |-> <<>>,
     seen |-> <<>>, exact |-> TRUE, got |-> <<>>, overdue |-> FALSE]
Frame(op, file_path, pdf_url) ==
    [IdleFrame EXCEPT !.pc = "running", !.op = op,
                      !.file_path = file_path, !.pdf_url = pdf_url]

\* The machine a caller's code runs on: the clock reading, the client
\* object's fields and the caller's own frame.
Machine(p, now) ==
    [now |-> now[p], api_key |-> api_key, client |-> _client, conns |-> conns, f |-> fr[p]]

\* Leaving the call: the outcome goes to the caller; the time readings and
\* the locator of the finished frame are gone with it.
Leave(f) == [f EXCEPT !.pc = "returned", !.start_time = 0, !.due = 0, !.md_url = <<>>]
Raise(m, type, msg) ==
    [m EXCEPT !.f = [Leave(m.f) EXCEPT !.outcome = Raised(type, msg)]]
Return(m, ret) ==
    [m EXCEPT !.f = [Leave(m.f) EXCEPT !.outcome = Returned, !.ret = ret]]
Logged(m, e) == [m EXCEPT !.f.log = Append(@, e)]

\* ------------------------------------------------------------- the client
\* __init__: api_key or os.getenv("MINERU_API_KEY", "")
init_api_key(arg, env) == OrStr(arg, IF env = NoArg THEN "" ELSE env)

is_available(m) == m.api_key # ""

\* a connection is created at every use, none is kept (mutant)
_get_client_fresh(m) ==
    LET c == Len(m.conns) + 1
    IN Logged([m EXCEPT !.conns = Append(@, "open"), !.client = c],
              Event("connect", c, <<>>, 0))
\* if self._client is None or self._client.is_closed: create; return it
_get_client(m) ==
    IF m.client = None \/ m.conns[m.client] = "closed"
    THEN LET c == Len(m.conns) + 1
         IN Logged([m EXCEPT !.conns = Append(@, "open"), !.client = c],
                   Event("connect", c, <<>>, 0))
    ELSE m

\* close(), up to the awaited aclose(), which marks the connection closed
\* before it suspends
close(m) ==
    IF m.client # None /\ m.conns[m.client] # "closed"
    THEN [m EXCEPT !.conns[m.client] = "closed", !.f.pc = "aclose"]
    ELSE Return(m, NoRet)
\* close(), after aclose() has returned
close_resume(m) == Return([m EXCEPT !.client = None], NoRet)

\* the pooled connection is fetched before the key is checked (mutant)
_create_task_connect_first(m, payload) ==
    LET m1 == _get_client(m)
    IN IF ~is_available(m1)
       THEN Raise(m1, "ValueError", <<"MinerU API Key not configured">>)
       ELSE Logged([m1 EXCEPT !.f.pc = "post", !.f.due = m.now],
                   Event("POST", m1.client, payload, 0))
\* _create_task, up to the awaited POST
_create_task(m, payload) ==
    IF ~is_available(m)
    THEN Raise(m, "ValueError", <<"MinerU API Key not configured">>)
    ELSE LET m1 == _get_client(m)
         IN Logged([m1 EXCEPT !.f.pc = "post", !.f.due = m.now],
                   Event("POST", m1.client, payload, 0))

\* the existence check left out (mutant)
create_task_from_file_unchecked(m, file_path) == _create_task(m, <<"file", file_path>>)
\* create_task_from_file, up to the awaited POST
create_task_from_file(m, file_path) ==
    IF file_path \notin ExistingPaths
    THEN Raise(m, "FileNotFoundError", <<"file not found: ", file_path>>)
    ELSE IF file_path \notin ReadablePaths
    THEN Raise(m, "IsADirectoryError", <<file_path>>)
    ELSE _create_task(m, <<"file", file_path>>)

create_task_from_url(m, pdf_url) == _create_task(m, <<"url", pdf_url>>)

\* extract_markdown, up to the awaited POST
extract_markdown(m, file_path, pdf_url) ==
    IF ~TruthyStr(file_path) /\ ~TruthyStr(pdf_url)
    THEN Raise(m, "ValueError", <<"file_path or pdf_url is required">>)
    ELSE IF TruthyStr(file_path)
    THEN create_task_from_file(m, file_path)
    ELSE create_task_from_url(m, pdf_url)

\* the query asks for the first task whatever the handle (mutant)
get_task_result_first(m, task_id) ==
    LET m1 == _get_client(m)
    IN Logged([m1 EXCEPT !.f.pc = "get", !.f.due = m.now],
              Event("GET", m1.client, <<"task-", "1">>, 0))
\* get_task_result, up to the awaited GET
get_task_result(m, task_id) ==
    LET m1 == _get_client(m)
    IN Logged([m1 EXCEPT !.f.pc = "get", !.f.due = m.now],
              Event("GET", m1.client, task_id, 0))

\* the deadline compared with >= (mutant), and never compared (mutant)
deadline_passed_at(elapsed, max_wait_time) == elapsed >= max_wait_time
deadline_never(elapsed, max_wait_time) == FALSE
\* if elapsed > max_wait_time
deadline_passed(elapsed, max_wait_time) == elapsed > max_wait_time

\* the head of wait_for_result's loop: the deadline check, then the query
poll(m) ==
    LET elapsed == m.now - m.f.start_time
        m1 == [m EXCEPT !.f.elapsed = elapsed]
    IN IF deadline_passed(elapsed, m.f.max_wait_time)
       THEN Raise(m1, "TimeoutError",
                  <<"timed out waiting for task (", ToString(m.f.max_wait_time), "s)">>)
       ELSE get_task_result(m1, m.f.task_id)

\* wait_for_result, up to its first suspension
wait_for_result(m, task_id, poll_interval, max_wait_time) ==
    poll([m EXCEPT !.f.task_id = task_id, !.f.poll_interval = poll_interval,
                   !.f.max_wait_time = max_wait_time, !.f.start_time = m.now])

\* the envelope check: result.get("code") != 0 is an error
envelope_ok(r) == r.code = Some(0)
\* only a missing key is rejected (mutant)
valid_task_id_present(task_id) == task_id # Absent
\* if not task_id: an absent or empty identifier is invalid
valid_task_id(task_id) == TruthyTokens(task_id)

\* _create_task after the POST has been answered; on success extract_markdown
\* goes on to wait_for_result with the default interval and deadline
_create_task_resume(m, r) ==
    IF r.http = "status"
    THEN Raise(m, "ValueError", <<"MinerU API request failed: HTTP ", ToString(r.status)>>)
    ELSE IF r.http # "ok"
    THEN Raise(m, "ValueError", <<"MinerU API call failed: ", r.err>>)
    ELSE IF ~envelope_ok(r)
    THEN Raise(m, "ValueError", <<"MinerU API call failed: ", "MinerU API error: ",
                                  Get(r.msg, "unknown error")>>)
    ELSE IF ~valid_task_id(r.task_id)
    THEN Raise(m, "ValueError", <<"MinerU API call failed: ", "invalid task id">>)
    ELSE wait_for_result(m, r.task_id[1], DEFAULT_POLL_INTERVAL, DEFAULT_MAX_WAIT_TIME)

\* _download_markdown, up to the awaited GET on a connection of its own
_download_markdown(m, url) ==
    Logged([m EXCEPT !.f.pc = "download", !.f.md_url = url, !.f.due = 0],
           Event("fetch", None, url, 0))

ExtraInfo(m, result, content) ==
    [content |-> content, task_id |-> m.f.task_id, pages |-> Get(result.pages, 0),
     processing_time |-> result.processing_time, data |-> Some(result)]

\* a URL key that is present counts even when its value is empty (mutant)
wait_for_result_done_present(m, data) ==
    IF m.f.op = "wait_for_result"
    THEN Return(m, [NoRet EXCEPT !.data = Some(data)])
    ELSE LET md_url == IF data.full_zip_url # Absent THEN data.full_zip_url ELSE data.md_url
             m0 == [m EXCEPT !.f.start_time = 0, !.f.elapsed = 0]
             m1 == [m0 EXCEPT !.f.ret = ExtraInfo(m, data, "")]
         IN IF md_url # Absent
            THEN _download_markdown(m1, md_url[1])
            ELSE Return(m0, ExtraInfo(m, data, Get(data.markdown, "")))
\* md_url is preferred to full_zip_url (mutant)
wait_for_result_done_md_first(m, data) ==
    IF m.f.op = "wait_for_result"
    THEN Return(m, [NoRet EXCEPT !.data = Some(data)])
    ELSE LET md_url == OrTokens(data.md_url, data.full_zip_url)
             m0 == [m EXCEPT !.f.start_time = 0, !.f.elapsed = 0]
             m1 == [m0 EXCEPT !.f.ret = ExtraInfo(m, data, "")]
         IN IF TruthyTokens(md_url)
            THEN _download_markdown(m1, md_url[1])
            ELSE Return(m0, ExtraInfo(m, data, Get(data.markdown, "")))
\* wait_for_result has returned data: a direct call returns it, extract_markdown
\* picks the locator
wait_for_result_done(m, data) ==
    IF m.f.op = "wait_for_result"
    THEN Return(m, [NoRet EXCEPT !.data = Some(data)])
    ELSE LET md_url == OrTokens(data.full_zip_url, data.md_url)
             \* back in extract_markdown: the locals of wait_for_result are gone
             m0 == [m EXCEPT !.f.start_time = 0, !.f.elapsed = 0]
             m1 == [m0 EXCEPT !.f.ret = ExtraInfo(m, data, "")]
         IN IF TruthyTokens(md_url)
            THEN _download_markdown(m1, md_url[1])
            ELSE Return(m0, ExtraInfo(m, data, Get(data.markdown, "")))

\* sleeps the default interval whatever the argument (mutant)
suspend_default(m) ==
    Logged([m EXCEPT !.f.pc = "sleep", !.f.due = m.now + DEFAULT_POLL_INTERVAL],
           Event("sleep", None, <<>>, DEFAULT_POLL_INTERVAL))
\* await asyncio.sleep(poll_interval)
suspend(m) ==
    Logged([m EXCEPT !.f.pc = "sleep", !.f.due = m.now + m.f.poll_interval],
           Event("sleep", None, <<>>, m.f.poll_interval))

\* a failed query is swallowed and polled again (mutant)
query_failed_retry(m, r) == suspend(m)
\* get_task_result's except clause: whatever the request raised becomes a
\* ValueError, which wait_for_result does not catch
query_failed(m, r) ==
    Raise(m, "ValueError",
          <<"get task result failed: ",
            IF r.http = "status" THEN ToString(r.status) ELSE r.err>>)

\* status == "done"
is_done(status) == status = Some("done")
\* the failure state misspelt (mutant); every state but "running" is a
\* failure (mutant)
is_failed_typo(status) == status = Some("fail")
is_failed_unless_running(status) == status # Some("running")
\* status == "failed"
is_failed(status) == status = Some("failed")
\* a failed task is reported with the error of a timeout (mutant)
task_failed_as_timeout(m, data) ==
    Raise(m, "TimeoutError", <<"MinerU parse failed: ", Get(data.err_msg, "task failed")>>)
\* raise ValueError(f"... {data.get('err_msg', ...)}")
task_failed(m, data) ==
    Raise(m, "ValueError", <<"MinerU parse failed: ", Get(data.err_msg, "task failed")>>)

\* the deadline is checked again when the answer arrives (mutant)
wait_for_result_resume_rechecked(m, r) ==
    IF r.http # "ok"
    THEN query_failed(m, r)
    ELSE IF ~envelope_ok(r)
    THEN Raise(m, "ValueError", <<"MinerU API error: ", Get(r.msg, "unknown error")>>)
    ELSE IF deadline_passed(m.now - m.f.start_time, m.f.max_wait_time)
    THEN Raise(m, "TimeoutError",
               <<"timed out waiting for task (", ToString(m.f.max_wait_time), "s)">>)
    ELSE LET data == Get(r.data, EmptyData)
             status == data.state
         IN IF is_done(status) THEN wait_for_result_done(m, data)
            ELSE IF is_failed(status) THEN task_failed(m, data)
            ELSE suspend(m)
\* the task state is looked at before the envelope's code (mutant)
wait_for_result_resume_state_first(m, r) ==
    IF r.http # "ok"
    THEN query_failed(m, r)
    ELSE LET data == Get(r.data, EmptyData)
             status == data.state
         IN IF is_done(status) THEN wait_for_result_done(m, data)
            ELSE IF is_failed(status) THEN task_failed(m, data)
            ELSE IF ~envelope_ok(r)
            THEN Raise(m, "ValueError", <<"MinerU API error: ", Get(r.msg, "unknown error")>>)
            ELSE suspend(m)
\* wait_for_result after a status query has been answered
wait_for_result_resume(m, r) ==
    IF r.http # "ok"
    THEN query_failed(m, r)
    ELSE IF ~envelope_ok(r)
    THEN Raise(m, "ValueError", <<"MinerU API error: ", Get(r.msg, "unknown error")>>)
    ELSE LET data == Get(r.data, EmptyData)
             status == data.state
         IN IF is_done(status) THEN wait_for_result_done(m, data)
            ELSE IF is_failed(status) THEN task_failed(m, data)
            ELSE suspend(m)

\* the last entry that ends in ".md" is read instead of the first (mutant)
RECURSIVE FirstMd_last(_)
FirstMd_last(entries) ==
    IF entries = <<>> THEN [ok |-> TRUE, text |-> ""]
    ELSE LET e == entries[Len(entries)]
         IN IF EndsWith(e.name, ".md")
            THEN [ok |-> e.bytes.utf8, text |-> e.bytes.text]
            ELSE FirstMd_last(SubSeq(entries, 1, Len(entries) - 1))
\* zip_file.read(name).decode('utf-8') of the first entry, in archive order,
\* whose name ends in ".md": ok is FALSE when decoding it raises; "" when no
\* entry has such a name
RECURSIVE FirstMd(_)
FirstMd(entries) ==
    IF entries = <<>> THEN [ok |-> TRUE, text |-> ""]
    ELSE IF EndsWith(Head(entries).name, ".md")
    THEN [ok |-> Head(entries).bytes.utf8, text |-> Head(entries).bytes.text]
    ELSE FirstMd(Tail(entries))

\* _download_markdown after the GET has been answered
download_content(url, r) ==
    IF r.http # "ok" THEN ""
    ELSE IF EndsWith(url, ".zip")
    THEN IF ~r.body.isZip THEN ""
         ELSE IF FirstMd(r.body.entries).ok THEN FirstMd(r.body.entries).text ELSE ""
    ELSE r.body.raw.lossy

\* only a failed request is caught, a failure while unpacking escapes (mutant)
extract_markdown_resume_uncaught(m, r) ==
    IF r.http = "ok" /\ EndsWith(m.f.md_url, ".zip")
          /\ (~r.body.isZip \/ ~FirstMd(r.body.entries).ok)
    THEN Raise(m, IF r.body.isZip THEN "UnicodeDecodeError" ELSE "BadZipFile", <<>>)
    ELSE Return(m, [m.f.ret EXCEPT !.content = download_content(m.f.md_url, r)])
\* extract_markdown after _download_markdown has returned
extract_markdown_resume(m, r) ==
    Return(m, [m.f.ret EXCEPT !.content = download_content(m.f.md_url, r)])


\* ---------------------------------------------------------------- actions
Max(a, b) == IF a >= b THEN a ELSE b
Last(seq) == seq[Len(seq)]
TaskIdOf(n) == <<"task-", ToString(n)>>
Queries(log) == Len(SelectSeq(log, LAMBDA e : e.ev = "GET"))
CanCall(p) == fr[p].pc \in {"idle", "returned"} /\ calls < MaxCalls

\* What an answered request means on the wire, whatever the client makes of
\* it: the request failed ("error": it raised, a non-2xx reply, no JSON), the
\* service refused it ("refused": the envelope's code is not 0), or, with code
\* 0, the task state it reports ("done", "failed", anything else "progress").
StateOf(r) == IF r.data = Absent THEN Absent ELSE r.data[1].state
Meaning(r) ==
    IF r.http # "ok" THEN "error"
    ELSE IF r.code # Some(0) THEN "refused"
    ELSE IF StateOf(r) = Some("done") THEN "done"
    ELSE IF StateOf(r) = Some("failed") THEN "failed"
    ELSE "progress"
\* for a submission: code 0 with a non-empty task identifier is "accepted"
PostMeaning(r) ==
    IF r.http # "ok" THEN "error"
    ELSE IF r.code # Some(0) THEN "refused"
    ELSE IF r.task_id = Absent \/ r.task_id = Some(<<>>) THEN "no-id"
    ELSE "accepted"
Heard(m, what) == [m EXCEPT !.f.exact = @ /\ m.now = m.f.due, !.f.seen = Append(@, what)]
\* What an answered artifact download comes to: the request failed
\* ("unreachable": it raised; "status": a non-2xx reply), the body of a
\* ".zip" URL is no archive ("corrupt"), the entry to read is not UTF-8
\* ("undecodable"), or the artifact was downloaded ("ok").
FetchMeaning(url, r) ==
    IF r.http = "error" THEN "unreachable"
    ELSE IF r.http # "ok" THEN "status"
    ELSE IF ~EndsWith(url, ".zip") THEN "ok"
    ELSE IF ~r.body.isZip THEN "corrupt"
    ELSE LET mds == SelectSeq(r.body.entries, LAMBDA e : EndsWith(e.name, ".md"))
         IN IF mds # <<>> /\ ~mds[1].bytes.utf8 THEN "undecodable" ELSE "ok"
Fetched(m, r) == [m EXCEPT !.f.got = <<r>>]
\* whether a status answer arrives with the deadline already passed
Timed(m) == [m EXCEPT !.f.overdue = m.now - m.f.start_time > m.f.max_wait_time]

\* When caller p resumes, d is the time that has passed for p since it
\* suspended.  No caller compares its readings with another's, so each clock
\* advances at its caller's own steps.
Advance(p, d) == [clock EXCEPT ![p] = @ + d]
Started(p) == [clock EXCEPT ![p] = 0]

\* the step of caller p ends in machine m, at clock readings now
Commit(p, m, now) ==
    /\ _client' = m.client
    /\ conns' = m.conns
    /\ fr' = [fr EXCEPT ![p] = m.f]
    /\ clock' = IF m.f.pc = "returned" THEN [now EXCEPT ![p] = 0] ELSE now

Init ==
    /\ api_key \in {init_api_key(arg, env) : arg \in ApiKeyArgs, env \in ApiKeyEnv}
    /\ _client = None
    /\ conns = <<>>
    /\ clock = [p \in Callers |-> 0]
    /\ nextTask = 0
    /\ calls = 0
    /\ fr = [p \in Callers |-> IdleFrame]

\* caller p calls extract_markdown(file_path, pdf_url)
CallExtractMarkdown(p, file_path, pdf_url) ==
    /\ CanCall(p)
    /\ calls' = calls + 1
    /\ LET m == [Machine(p, Started(p)) EXCEPT
                    !.f = Frame("extract_markdown", file_path, pdf_url)]
       IN Commit(p, extract_markdown(m, file_path, pdf_url), Started(p))
    /\ UNCHANGED <<api_key, nextTask>>

\* caller p calls wait_for_result(task_id, poll_interval, max_wait_time)
CallWaitForResult(p, task_id, poll_interval, max_wait_time) ==
    /\ CanCall(p)
    /\ calls' = calls + 1
    /\ LET m == [Machine(p, Started(p)) EXCEPT
                    !.f = Frame("wait_for_result", NoArg, NoArg)]
       IN Commit(p, wait_for_result(m, task_id, poll_interval, max_wait_time), Started(p))
    /\ UNCHANGED <<api_key, nextTask>>

\* caller p calls close()
CallClose(p) ==
    /\ CanCall(p)
    /\ calls' = calls + 1
    /\ LET m == [Machine(p, Started(p)) EXCEPT !.f = Frame("close", NoArg, NoArg)]
       IN Commit(p, close(m), Started(p))
    /\ UNCHANGED <<api_key, nextTask>>

\* aclose() returns to caller p after d time units
CloseResume(p, d) ==
    /\ fr[p].pc = "aclose"
    /\ Commit(p, close_resume(Machine(p, Advance(p, d))), Advance(p, d))
    /\ UNCHANGED <<api_key, nextTask, calls>>

\* the POST of caller p is answered with r after d time units
PostRespond(p, r, d) ==
    /\ fr[p].pc = "post"
    /\ nextTask' = IF r.task_id = Some(TaskIdOf(nextTask + 1)) THEN nextTask + 1 ELSE nextTask
    /\ LET m == Machine(p, Advance(p, d))
       IN Commit(p, _create_task_resume(Heard(m, PostMeaning(r)), r), Advance(p, d))
    /\ UNCHANGED <<api_key, calls>>

\* the status query of caller p is answered with r after d time units
GetRespond(p, r, d) ==
    /\ fr[p].pc = "get"
    /\ LET m == Machine(p, Advance(p, d))
       IN Commit(p, wait_for_result_resume(Timed(Heard(m, Meaning(r))), r), Advance(p, d))
    /\ UNCHANGED <<api_key, nextTask, calls>>

\* asyncio.sleep(poll_interval) of caller p resumes, late time units late
Wake(p, late) ==
    /\ fr[p].pc = "sleep"
    /\ LET now == Advance(p, Max(0, fr[p].due + late - clock[p]))
           m == Machine(p, now)
       IN /\ \/ deadline_passed(m.now - m.f.start_time, m.f.max_wait_time)
             \/ Queries(m.f.log) < MaxQueries
          /\ Commit(p, poll([m EXCEPT !.f.exact = @ /\ m.now = m.f.due]), now)
    /\ UNCHANGED <<api_key, nextTask, calls>>

\* the artifact download of caller p is answered with r after d time units
DownloadRespond(p, r, d) ==
    /\ fr[p].pc = "download"
    /\ LET m == Machine(p, Advance(p, d))
       IN Commit(p, extract_markdown_resume(Fetched(m, r), r),
                 Advance(p, d))
    /\ UNCHANGED <<api_key, nextTask, calls>>

Next ==
    \E p \in Solo :
        \/ \E file_path \in FilePaths, pdf_url \in PdfUrls :
               CallExtractMarkdown(p, file_path, pdf_url)
        \/ \E w \in WaitParams : CallWaitForResult(p, TaskIdOf(1), w[1], w[2])
        \/ CallClose(p)
        \/ \E d \in Durations : CloseResume(p, d)
        \/ \E r \in PostReplies(TaskIdOf(nextTask + 1)), d \in Durations : PostRespond(p, r, d)
        \/ \E r \in GetReplies, d \in Durations : GetRespond(p, r, d)
        \/ \E late \in Lateness : Wake(p, late)
        \/ \E r \in DownloadReplies, d \in Durations : DownloadRespond(p, r, d)

Spec == Init /\ [][Next]_vars


\* The polling loop on its own: direct calls of wait_for_result with small
\* deadlines, every query answered and every sleep resumed.
LiveNext ==
    \E p \in Solo :
        \/ \E w \in WaitParams : CallWaitForResult(p, TaskIdOf(1), w[1], w[2])
        \/ \E r \in GetReplies, d \in Durations : GetRespond(p, r, d)
        \/ \E late \in Lateness : Wake(p, late)

LiveSpec ==
    /\ Init
    /\ [][LiveNext]_vars
    /\ \A p \in Solo :
          /\ WF_vars(\E r \in GetReplies, d \in Durations : GetRespond(p, r, d))
          /\ WF_vars(\E late \in Lateness : Wake(p, late))

\* Several callers on one client: extract_markdown lifecycles interleaved at
\* their suspension points.  The service's answers are one of each kind, all
\* immediate.
ConcSources == {<<NoArg, "http://host/a.pdf">>}
ConcPostReplies(fresh) ==
    { Envelope(Some(0), Absent, Some(fresh), Absent),
      Envelope(Some(1), Some("quota exceeded"), Absent, Absent) }
ConcGetReplies ==
    { Envelope(Some(0), Absent, Absent, Some(InState("running"))),
      Envelope(Some(0), Absent, Absent,
               Some(Data(Some("done"), Absent, Absent, Absent, Some("# Inline"), Some(2), Some("1.5")))),
      Envelope(Some(0), Absent, Absent,
               Some(Data(Some("done"), Absent, Some(ZipUrl), Absent, Absent, Some(2), Absent))),
      Envelope(Some(0), Absent, Absent,
               Some(Data(Some("failed"), Some("bad scan"), Absent, Absent, Absent, Absent, Absent))) }
ConcDownloadReplies ==
    { Download("ok", Body(TRUE, << Entry(<<"report", ".md">>, Hello) >>, ZipRaw)) }

ConcInit == Init /\ api_key = "key-arg"

ConcNext ==
    \E p \in Callers :
        \/ \E src \in ConcSources : CallExtractMarkdown(p, src[1], src[2])
        \/ \E r \in ConcPostReplies(TaskIdOf(nextTask + 1)) : PostRespond(p, r, 0)
        \/ \E r \in ConcGetReplies : GetRespond(p, r, 0)
        \/ Wake(p, 0)
        \/ \E r \in ConcDownloadReplies : DownloadRespond(p, r, 0)

ConcSpec == ConcInit /\ [][ConcNext]_vars

\* The same with close() among the calls.  A request that is in flight on a
\* connection when the connection is closed fails.
OnClosed(p) == conns[Last(fr[p].log).conn] = "closed"
Aborted == Reply("error", 0, "ClosedError", Absent, Absent, Absent, Absent)

CloseNext ==
    \E p \in Callers :
        \/ \E src \in ConcSources : CallExtractMarkdown(p, src[1], src[2])
        \/ CallClose(p)
        \/ CloseResume(p, 0)
        \/ /\ fr[p].pc = "post"
           /\ \E r \in IF OnClosed(p) THEN {Aborted} ELSE ConcPostReplies(TaskIdOf(nextTask + 1)) :
                 PostRespond(p, r, 0)
        \/ /\ fr[p].pc = "get"
           /\ \E r \in IF OnClosed(p) THEN {Aborted} ELSE ConcGetReplies :
                 GetRespond(p, r, 0)
        \/ Wake(p, 0)
        \/ \E r \in ConcDownloadReplies : DownloadRespond(p, r, 0)

CloseSpec == ConcInit /\ [][CloseNext]_vars

\* ------------------------------------------------------------- properties
Count(seq, x) == Len(SelectSeq(seq, LAMBDA e : e = x))
Events(log, kinds) == SelectSeq(log, LAMBDA e : e.ev \in kinds)
IssuedIds == {TaskIdOf(k) : k \in 1..nextTask}

\* the kinds of outcome the caller can tell apart
IsSuccess(o) == o.status = "returned"
IsTimeout(o) == o.status = "raised" /\ o.type = "TimeoutError"
IsTaskFailure(o) ==
    o.status = "raised" /\ o.type = "ValueError" /\ o.msg[1] = "MinerU parse failed: "
IsRemoteError(o) ==
    /\ o.status = "raised" /\ o.type = "ValueError"
    /\ o.msg[1] \in {"get task result failed: ", "MinerU API error: ",
                     "MinerU API call failed: ", "MinerU API request failed: HTTP "}
IsInputError(o) ==
    /\ o.status = "raised"
    /\ \/ o.type = "FileNotFoundError"
       \/ o.type = "ValueError" /\ o.msg = <<"file_path or pdf_url is required">>
IsConfigError(o) == o = Raised("ValueError", <<"MinerU API Key not configured">>)

\* C1: when a status query is answered with state "failed" (by the first
\* query or a later one), wait_for_result raises at once the task failure
\* carrying the service's err_msg, and the step issues no query and asks for
\* no suspension (the invocation is over).
C1_FailedRaisesAtOnce ==
    [][\A p \in Solo : fr[p].pc = "get" =>
        \A r \in GetReplies, d \in Durations :
          (/\ Meaning(r) = "failed"
           /\ Last(fr'[p].seen) = "failed"
           /\ GetRespond(p, r, d)) =>
              /\ fr'[p].pc = "returned"
              /\ IsTaskFailure(fr'[p].outcome)
              /\ fr'[p].outcome.msg[2] = Get(r.data[1].err_msg, "task failed")
              /\ fr'[p].log = fr[p].log]_vars
C1_Witness ==
    \E p \in Solo :
        /\ fr[p].outcome = Raised("ValueError", <<"MinerU parse failed: ", "bad scan">>)
        /\ Queries(fr[p].log) = 2
        /\ Last(fr[p].seen) = "failed"

\* the queries and suspensions of a log alternate, query first and last,
\* n suspensions each of the given interval
PollShape(log, n, interval) ==
    LET q == Events(log, {"GET", "sleep"})
    IN /\ Len(q) = 2 * n + 1
       /\ \A i \in 1..Len(q) :
             IF i % 2 = 1 THEN q[i].ev = "GET"
             ELSE q[i].ev = "sleep" /\ q[i].d = interval

\* C2: when n in-progress answers are followed by "done", wait_for_result has
\* issued exactly n+1 queries and n suspensions, each of poll_interval and
\* each between two queries, none after "done"; at least n intervals have
\* passed; and it returns the data of the "done" answer.
C2_DoneAfterNProgress ==
    [][\A p \in Solo : fr[p].pc = "get" =>
        \A r \in GetReplies, d \in Durations :
          (/\ Meaning(r) = "done"
           /\ Last(fr'[p].seen) = "done"
           /\ GetRespond(p, r, d)) =>
              LET n == Count(fr[p].seen, "progress")
              IN /\ PollShape(fr'[p].log, n, fr[p].poll_interval)
                 /\ Len(Events(fr'[p].log, {"sleep"})) = Len(Events(fr[p].log, {"sleep"}))
                 /\ fr'[p].ret.data = r.data
                 /\ clock[p] + d - fr[p].start_time >= n * fr[p].poll_interval
                 /\ fr[p].op = "wait_for_result" =>
                        fr'[p].pc = "returned" /\ IsSuccess(fr'[p].outcome)]_vars
C2_Witness ==
    \E p \in Solo :
        /\ fr[p].op = "wait_for_result" /\ IsSuccess(fr[p].outcome)
        /\ fr[p].seen = <<"progress", "progress", "done">>
        /\ Len(Events(fr[p].log, {"sleep"})) = 2
        /\ fr[p].poll_interval = 2

\* C3: wait_for_result raises TimeoutError only when the time since polling
\* began exceeds max_wait_time, never at or before it; the error carries the
\* configured maximum.  When every query is instantaneous and every sleep on
\* time, the elapsed time is the sum of the suspensions and the query before
\* the last suspension was still within the deadline; so with max wait 5 and
\* poll interval 3 it fails at time 6 after exactly two queries.
C3_TimeoutOnlyPastDeadline ==
    \A p \in Solo :
        LET f == fr[p]
            sleeps == Len(Events(f.log, {"sleep"}))
        IN IsTimeout(f.outcome) =>
              /\ f.elapsed > f.max_wait_time
              /\ f.outcome.msg[2] = ToString(f.max_wait_time)
              /\ sleeps = Queries(f.log)
              /\ f.elapsed >= sleeps * f.poll_interval
              /\ f.exact =>
                    /\ f.elapsed = sleeps * f.poll_interval
                    /\ sleeps >= 1 => (sleeps - 1) * f.poll_interval <= f.max_wait_time
              /\ (f.exact /\ f.poll_interval = 3 /\ f.max_wait_time = 5) =>
                    f.elapsed = 6 /\ Queries(f.log) = 2
C3_Witness ==
    \E p \in Solo :
        /\ IsTimeout(fr[p].outcome) /\ fr[p].exact
        /\ fr[p].poll_interval = 3 /\ fr[p].max_wait_time = 5
        /\ fr[p].elapsed = 6 /\ Queries(fr[p].log) = 2

\* the outcome kinds that an ended wait_for_result may show
WaitKinds(o) ==
    {k \in {"success", "task failure", "remote error", "timeout"} :
        \/ k = "success" /\ IsSuccess(o)
        \/ k = "task failure" /\ IsTaskFailure(o)
        \/ k = "remote error" /\ IsRemoteError(o)
        \/ k = "timeout" /\ IsTimeout(o)}

\* C4: every invocation of wait_for_result (positive poll interval, finite
\* max wait, every query answered) eventually ends, and ends in exactly one
\* of success, task failure, remote error, TimeoutError, whatever the
\* service answers.
C4_WaitEnds ==
    \A p \in Solo :
        (fr[p].pc \in {"get", "sleep"}) ~>
            (fr[p].pc = "returned" /\ Cardinality(WaitKinds(fr[p].outcome)) = 1)
C4_Witness ==
    \E p \in Solo :
        /\ IsTimeout(fr[p].outcome)
        /\ fr[p].seen = <<"progress", "progress", "progress">>

\* C5: a status query that fails (the request raises, a non-2xx reply, a
\* body that is not JSON) aborts polling with a remote error: the step ends
\* the invocation, issues no query and asks for no suspension.
C5_QueryFailureAborts ==
    [][\A p \in Solo : fr[p].pc = "get" =>
        \A r \in GetReplies, d \in Durations :
          (/\ Meaning(r) = "error"
           /\ Last(fr'[p].seen) = "error"
           /\ GetRespond(p, r, d)) =>
              /\ fr'[p].pc = "returned"
              /\ IsRemoteError(fr'[p].outcome)
              /\ fr'[p].outcome.msg[1] = "get task result failed: "
              /\ fr'[p].log = fr[p].log]_vars
C5_Witness ==
    \E p \in Solo :
        /\ fr[p].outcome = Raised("ValueError", <<"get task result failed: ", "ConnectError">>)
        /\ fr[p].seen = <<"progress", "error">>
        /\ Queries(fr[p].log) = 2 /\ Len(Events(fr[p].log, {"sleep"})) = 1


\* C6: a status answer whose state is neither "done" nor "failed" (an
\* unrecognized string, or no state at all) is taken as still in progress:
\* the call neither returns nor raises on it but asks for a suspension of
\* poll_interval, and when the suspension is over it goes back to the head of
\* the loop and queries the same task again (the deadline check of the loop
\* head comes first, as before every query).
C6_UnknownStateKeepsPolling ==
    [][\A p \in Solo :
          /\ fr[p].pc = "get" => \A r \in GetReplies, d \in Durations :
                (/\ Meaning(r) = "progress"
                 /\ Last(fr'[p].seen) = "progress"
                 /\ GetRespond(p, r, d)) =>
                    /\ fr'[p].pc = "sleep"
                    /\ fr'[p].outcome = NoOutcome
                    /\ fr'[p].log = Append(fr[p].log,
                                           Event("sleep", None, <<>>, fr[p].poll_interval))
                    /\ fr'[p].due = clock[p] + d + fr[p].poll_interval
          /\ fr[p].pc = "sleep" => \A late \in Lateness :
                Wake(p, late) =>
                    LET now == Max(clock[p], fr[p].due + late)
                    IN IF now - fr[p].start_time > fr[p].max_wait_time
                       THEN IsTimeout(fr'[p].outcome)
                       ELSE /\ fr'[p].pc = "get"
                            /\ fr'[p].outcome = NoOutcome
                            /\ Queries(fr'[p].log) = Queries(fr[p].log) + 1
                            /\ Last(fr'[p].log).ev = "GET"
                            /\ Last(fr'[p].log).what = fr[p].task_id]_vars
C6_Witness ==
    \E p \in Solo :
        /\ fr[p].pc = "get"
        /\ fr[p].seen = <<"progress", "progress">>
        /\ Queries(fr[p].log) = 3

\* the order of the steps of a lifecycle
Rank(e) == CASE e.ev = "POST" -> 1 [] e.ev = "GET" -> 2 [] e.ev = "fetch" -> 3 [] OTHER -> 0

\* C7: one extract_markdown lifecycle runs submit, then poll, then fetch: at
\* most one submission and one fetch; no status query unless the submission
\* was accepted with a task identifier, and every query asks for that
\* identifier; no fetch unless a status query was answered "done"; a
\* lifecycle whose submission or polling failed raises and does none of the
\* later steps.
C7_SubmitPollFetch ==
    \A p \in Solo :
        LET f == fr[p]
            steps == Events(f.log, {"POST", "GET", "fetch"})
            posts == Len(Events(f.log, {"POST"}))
            gets == Len(Events(f.log, {"GET"}))
            fetches == Len(Events(f.log, {"fetch"}))
        IN f.op = "extract_markdown" =>
              /\ posts <= 1 /\ fetches <= 1
              /\ \A i, j \in 1..Len(steps) : i < j => Rank(steps[i]) <= Rank(steps[j])
              /\ gets > 0 =>
                    /\ posts = 1 /\ f.seen # <<>> /\ f.seen[1] = "accepted"
                    /\ \A i \in 1..Len(steps) :
                          steps[i].ev = "GET" =>
                              steps[i].what \in IssuedIds /\ steps[i].what = f.task_id
              /\ fetches > 0 => gets > 0 /\ Count(f.seen, "done") = 1 /\ Last(f.seen) = "done"
              /\ f.outcome.status = "raised" => fetches = 0
              /\ (f.seen # <<>> /\ f.seen[1] # "accepted") =>
                    f.pc = "returned" /\ f.outcome.status = "raised" /\ gets = 0
              /\ (f.seen # <<>> /\ Last(f.seen) \in {"error", "refused", "no-id", "failed"}) =>
                    f.pc = "returned" /\ f.outcome.status = "raised" /\ fetches = 0
C7_Witness ==
    \E p \in Solo :
        /\ fr[p].op = "extract_markdown" /\ IsSuccess(fr[p].outcome)
        /\ fr[p].seen = <<"accepted", "progress", "done">>
        /\ Len(Events(fr[p].log, {"POST"})) = 1
        /\ Queries(fr[p].log) = 2
        /\ Len(Events(fr[p].log, {"fetch"})) = 1

\* C8: extract_markdown called with neither a file path nor a URL, or with
\* both, raises the input error and submits no task.  (Read in the code's
\* favour: with both given, any error raised before the submission counts.)
C8_OneSourceRequired ==
    \A p \in Solo :
        LET f == fr[p]
        IN (f.op = "extract_markdown" /\ (TruthyStr(f.file_path) <=> TruthyStr(f.pdf_url))) =>
              /\ f.pc = "returned"
              /\ f.outcome.status = "raised"
              /\ ~TruthyStr(f.file_path) => IsInputError(f.outcome)
              /\ Events(f.log, {"POST"}) = <<>>

\* C9: extract_markdown with a file path that does not exist raises the
\* input error (FileNotFoundError) having sent no request and created no
\* pooled connection, with or without a configured key.
C9_MissingFileFailsFirst ==
    \A p \in Solo :
        LET f == fr[p]
        IN (f.op = "extract_markdown" /\ TruthyStr(f.file_path)
               /\ f.file_path \notin ExistingPaths) =>
              /\ f.pc = "returned"
              /\ f.outcome = Raised("FileNotFoundError", <<"file not found: ", f.file_path>>)
              /\ IsInputError(f.outcome)
              /\ f.log = <<>>
C9_Witness ==
    \E p \in Solo :
        /\ api_key = ""
        /\ fr[p].op = "extract_markdown" /\ fr[p].file_path = "missing.pdf"
        /\ fr[p].outcome.type = "FileNotFoundError"
        /\ conns = <<>>

\* a request that names one readable source
ValidRequest(f) ==
    \/ f.file_path \in ReadablePaths
    \/ ~TruthyStr(f.file_path) /\ TruthyStr(f.pdf_url)

\* C10: without a configured key the client reports itself unavailable from
\* construction on, and extract_markdown with an otherwise valid request
\* raises the configuration error having sent no request and created no
\* pooled connection.
C10_NoKeyFailsBeforeNetwork ==
    api_key = "" =>
        /\ \A p \in Solo : ~is_available(Machine(p, clock))
        /\ \A p \in Solo :
              (fr[p].op = "extract_markdown" /\ ValidRequest(fr[p])) =>
                  /\ fr[p].pc = "returned"
                  /\ IsConfigError(fr[p].outcome)
                  /\ fr[p].log = <<>>
C10_Witness ==
    \E p \in Solo :
        /\ api_key = ""
        /\ fr[p].op = "extract_markdown" /\ fr[p].file_path = "doc.pdf"
        /\ IsConfigError(fr[p].outcome)
        /\ conns = <<>> /\ _client = None

\* the ways an artifact download can fail
FetchFailures == {"unreachable", "status", "corrupt", "undecodable"}
\* the downloads a call has asked for, and what the answered one came to
Fetches(f) == Events(f.log, {"fetch"})
Came(f) == FetchMeaning(Fetches(f)[1].what, f.got[1])

\* C11: once polling has returned "done" with a URL, a failure of the
\* download or of the unpacking (the request raises, a non-2xx reply, a body
\* that is no archive, an entry that is not UTF-8) gives empty content, and
\* extract_markdown still returns, with the metadata of the "done" answer;
\* no answer to the download makes extract_markdown raise.
C11_FetchFailureDegrades ==
    \A p \in Solo :
        LET f == fr[p]
        IN f.got # Absent =>
              /\ f.pc = "returned"
              /\ IsSuccess(f.outcome)
              /\ Came(f) \in FetchFailures =>
                    /\ f.ret.content = ""
                    /\ f.ret.task_id = f.task_id /\ f.task_id \in IssuedIds
                    /\ f.ret.pages = Get(f.ret.data[1].pages, 0)
                    /\ f.ret.processing_time = f.ret.data[1].processing_time
                    /\ Last(f.seen) = "done"
C11_Witness ==
    \E p \in Solo :
        /\ fr[p].op = "extract_markdown" /\ IsSuccess(fr[p].outcome)
        /\ fr[p].got # Absent /\ Came(fr[p]) = "corrupt"
        /\ fr[p].ret.content = "" /\ fr[p].ret.pages = 2
        /\ fr[p].ret.task_id = TaskIdOf(1)

\* the reference result of a download: for a URL ending in ".zip" the text
\* of the first entry, in archive order, named "....md", "" when there is
\* none; otherwise the decoded body
Reference(url, body) ==
    IF EndsWith(url, ".zip")
    THEN LET mds == SelectSeq(body.entries, LAMBDA e : EndsWith(e.name, ".md"))
         IN IF mds = <<>> THEN "" ELSE mds[1].bytes.text
    ELSE body.raw.lossy

\* C12: for an artifact that was downloaded the content extract_markdown
\* returns is the reference result: the decoded first ".md" entry of the
\* archive (or "" without one) when the URL ends in ".zip", the decoded body
\* otherwise.
C12_FetchedContentIsReference ==
    \A p \in Solo :
        LET f == fr[p]
        IN (f.got # Absent /\ Came(f) = "ok") =>
              f.ret.content = Reference(Fetches(f)[1].what, f.got[1].body)
C12_Witness ==
    \E p \in Solo :
        /\ fr[p].op = "extract_markdown" /\ IsSuccess(fr[p].outcome)
        /\ fr[p].got # Absent /\ Came(fr[p]) = "ok"
        /\ EndsWith(Fetches(fr[p])[1].what, ".zip")
        /\ Len(fr[p].got[1].body.entries) = 3
        /\ ~EndsWith(fr[p].got[1].body.entries[1].name, ".md")
        /\ fr[p].ret.content = "Hello"

\* a "done" result without a usable URL: both keys missing or empty
NoUrl(data) == ~TruthyTokens(data.full_zip_url) /\ ~TruthyTokens(data.md_url)
\* the call is an extract_markdown whose polling has returned "done"
Polled(f) == f.op = "extract_markdown" /\ f.ret.data # Absent

\* C13: when the "done" result carries no URL, extract_markdown returns the
\* inline markdown of the result as it is ("" when there is none) and
\* downloads nothing: the call is over with the last status query as the
\* last thing it did.
C13_InlineBypassesFetch ==
    \A p \in Solo :
        LET f == fr[p]
        IN (Polled(f) /\ NoUrl(f.ret.data[1])) =>
              /\ f.pc = "returned"
              /\ IsSuccess(f.outcome)
              /\ f.ret.content = Get(f.ret.data[1].markdown, "")
              /\ Fetches(f) = <<>> /\ f.got = Absent
              /\ Last(f.log).ev = "GET"
C13_Witness ==
    \E p \in Solo :
        /\ fr[p].op = "extract_markdown" /\ IsSuccess(fr[p].outcome)
        /\ fr[p].ret.content = "# Inline"
        /\ fr[p].ret.data[1].full_zip_url = Some(<<>>)
        /\ fr[p].got = Absent
        /\ Fetches(fr[p]) = <<>>

\* the URL of highest precedence of a "done" result: full_zip_url when it is
\* there, md_url otherwise
Precedence(data) ==
    IF TruthyTokens(data.full_zip_url) THEN data.full_zip_url[1] ELSE data.md_url[1]

\* C20: the locator of the result is full_zip_url, else md_url, else the
\* inline markdown.  When the "done" result has a URL, extract_markdown asks
\* for one download, of the URL of highest precedence, and returns nothing
\* before it is answered; what it then returns is what that download gave,
\* "" when the download failed, and never the inline markdown of the result.
C20_LocatorPrecedence ==
    \A p \in Solo :
        LET f == fr[p]
            data == f.ret.data[1]
            url == Precedence(data)
        IN (Polled(f) /\ ~NoUrl(data)) =>
              /\ Fetches(f) = <<Event("fetch", None, url, 0)>>
              /\ Last(f.log).ev = "fetch"
              /\ IF f.got = Absent
                 THEN f.pc = "download" /\ f.outcome = NoOutcome
                 ELSE /\ f.pc = "returned" /\ IsSuccess(f.outcome)
                      /\ f.ret.content =
                            IF Came(f) = "ok" THEN Reference(url, f.got[1].body) ELSE ""
                      /\ data.markdown # Absent => f.ret.content # data.markdown[1]
C20_Witness ==
    \E p \in Solo :
        /\ fr[p].op = "extract_markdown" /\ IsSuccess(fr[p].outcome)
        /\ fr[p].ret.data[1].full_zip_url = Some(ZipUrl)
        /\ fr[p].ret.data[1].md_url = Some(MdUrl)
        /\ fr[p].ret.data[1].markdown = Some("# Inline")
        /\ Fetches(fr[p]) = <<Event("fetch", None, ZipUrl, 0)>>
        /\ fr[p].got # Absent /\ Came(fr[p]) = "unreachable"
        /\ fr[p].ret.content = ""

\* what a step of caller p adds to the log of p's call (a step that starts a
\* call starts its log)
Added(p) ==
    IF calls' # calls THEN fr'[p].log
    ELSE SubSeq(fr'[p].log, Len(fr[p].log) + 1, Len(fr'[p].log))
HasOpen == _client # None /\ conns[_client] = "open"

\* C14: the pooled connection is created lazily and survives close.  No
\* connection exists before the first call.  A step that sends a submission
\* or a status query sends it on the connection the client then references,
\* which is open: the one it already had when that was open (none is
\* created), a newly created one otherwise, be it the first use or the first
\* use after close(); the request is then awaited, it does not fail.  When
\* close() has completed the client references no open connection, so the
\* next use creates one.
C14_LazyPooledConnection ==
    [][/\ calls = 0 => conns = <<>> /\ _client = None
       /\ \A p \in Solo :
             LET reqs == Events(Added(p), {"POST", "GET"})
                 made == Events(Added(p), {"connect"})
             IN /\ reqs # <<>> =>
                      /\ Len(reqs) = 1
                      /\ fr'[p].pc \in {"post", "get"} /\ fr'[p].outcome = NoOutcome
                      /\ _client' # None /\ conns'[_client'] = "open"
                      /\ reqs[1].conn = _client'
                      /\ IF HasOpen
                         THEN made = <<>> /\ _client' = _client /\ conns' = conns
                         ELSE /\ made = <<Event("connect", Len(conns) + 1, <<>>, 0)>>
                              /\ _client' = Len(conns) + 1
                              /\ conns' = Append(conns, "open")
                /\ reqs = <<>> => made = <<>>
                /\ (fr'[p].op = "close" /\ fr'[p].pc = "returned") =>
                      /\ _client' = None \/ conns'[_client'] = "closed"
                      /\ Len(conns') = Len(conns)]_vars
C14_Witness ==
    \E p \in Solo :
        /\ conns = <<"closed", "open">> /\ _client = 2
        /\ fr[p].pc = "get"
        /\ fr[p].log = <<Event("connect", 2, <<>>, 0), Event("GET", 2, TaskIdOf(1), 0)>>

\* C18: in wait_for_result the deadline is checked before every status query
\* and nowhere else.  A query is in flight only if, at the moment it was
\* issued, the time since polling began did not exceed max_wait_time; and an
\* answer "done" or "failed" that arrives after the deadline has passed is
\* acted on all the same: the call returns the data (extract_markdown goes
\* on to the locator) or raises the task failure, never TimeoutError.
C18_DeadlineOnlyBeforeQuery ==
    \A p \in Solo :
        LET f == fr[p]
        IN /\ f.pc = "get" =>
                 /\ f.elapsed = clock[p] - f.start_time
                 /\ f.elapsed <= f.max_wait_time
           /\ (f.overdue /\ Last(f.seen) = "done") =>
                 /\ f.pc \in {"download", "returned"}
                 /\ f.pc = "returned" => IsSuccess(f.outcome)
                 /\ f.ret.data # Absent
           /\ (f.overdue /\ Last(f.seen) = "failed") =>
                 f.pc = "returned" /\ IsTaskFailure(f.outcome)
           /\ IsTimeout(f.outcome) => Last(f.seen) \in {"accepted", "progress"}
C18_Witness ==
    \E p \in Solo :
        /\ fr[p].op = "wait_for_result" /\ fr[p].max_wait_time = 0
        /\ fr[p].overdue /\ fr[p].seen = <<"done">>
        /\ IsSuccess(fr[p].outcome)

\* C19: in wait_for_result the envelope is checked before the task state.
\* A status answer whose code is not 0 (or is missing) ends the call with
\* the remote error carrying the envelope's msg, whatever state its data
\* reports: the refusals the service may send report "running" (msg
\* "busy"), "failed" (msg "denied") and "done" (no msg).  The last status
\* query is the last thing the call did: no suspension, no further query, no
\* download follows, and no data is returned.
C19_EnvelopeBeforeState ==
    \A p \in Solo :
        LET f == fr[p]
        IN (Queries(f.log) >= 1 /\ f.seen # <<>> /\ Last(f.seen) = "refused") =>
              /\ f.pc = "returned"
              /\ IsRemoteError(f.outcome)
              /\ f.outcome.msg[1] = "MinerU API error: "
              /\ f.outcome.msg[2] \in {"busy", "denied", "unknown error"}
              /\ Last(f.log).ev = "GET"
              /\ Len(Events(f.log, {"sleep"})) = Queries(f.log) - 1
              /\ f.ret.data = Absent /\ f.got = Absent
C19_Witness ==
    \E p \in Solo :
        /\ fr[p].outcome = Raised("ValueError", <<"MinerU API error: ", "unknown error">>)
        /\ fr[p].seen = <<"accepted", "progress", "refused">>
        /\ Queries(fr[p].log) = 2

\* the three situations of a call that the caller has to tell apart: the
\* call ended at the loop head (the last answer it heard left the task
\* unfinished), the service reported the task failed, the download failed
NeverFinished(f) ==
    f.pc = "returned" /\ f.seen # <<>> /\ Last(f.seen) \in {"accepted", "progress"}
Rejected(f) == f.seen # <<>> /\ Last(f.seen) = "failed"
Degraded(f) == f.got # Absent /\ Came(f) \in FetchFailures

\* C16: "never finished in time", "rejected by the service" and "retrieval
\* degraded to empty" end in outcomes the caller can tell apart: the first
\* in TimeoutError and nothing else does, the second in an error of another
\* type (ValueError) that carries the service's message, the third in a
\* return with empty content; so no two of them end in the same outcome.
C16_ThreeOutcomesDistinct ==
    \A p \in Solo :
        LET f == fr[p]
        IN /\ NeverFinished(f) <=> IsTimeout(f.outcome)
           /\ Rejected(f) =>
                 /\ f.pc = "returned"
                 /\ f.outcome.status = "raised" /\ f.outcome.type # "TimeoutError"
                 /\ IsTaskFailure(f.outcome)
                 /\ f.outcome.msg[2] \in {"bad scan", "task failed"}
           /\ IsTaskFailure(f.outcome) => Rejected(f)
           /\ Degraded(f) =>
                 f.pc = "returned" /\ IsSuccess(f.outcome) /\ f.ret.content = ""
           /\ Cardinality({k \in 1..3 : \/ k = 1 /\ NeverFinished(f)
                                        \/ k = 2 /\ Rejected(f)
                                        \/ k = 3 /\ Degraded(f)}) <= 1
C16_Witness ==
    \E p \in Solo :
        /\ fr[p].op = "extract_markdown"
        /\ IsTimeout(fr[p].outcome)
        /\ fr[p].seen = <<"accepted", "progress">>

\* two lifecycles were asked the same and have heard the same answers
SameAnswers(f, g) ==
    /\ f.file_path = g.file_path /\ f.pdf_url = g.pdf_url
    /\ f.seen = g.seen /\ f.got = g.got /\ f.ret.data = g.ret.data

\* C15: with several extract_markdown lifecycles running on one client, in
\* any interleaving of their steps: a lifecycle has a task identifier exactly
\* when its own submission was accepted, the service issued it, and no other
\* lifecycle has the same one; every status query the lifecycle has sent
\* asks for that identifier; the task_id of its result is that identifier;
\* and its outcome is a function of what it was asked and of the answers to
\* its own requests: two lifecycles that heard the same answers end alike,
\* whatever the other did meanwhile.
C15_LifecyclesIndependent ==
    \A p \in Callers :
        LET f == fr[p]
        IN f.op = "extract_markdown" =>
              /\ f.task_id # <<>> <=> (f.seen # <<>> /\ f.seen[1] = "accepted")
              /\ f.task_id # <<>> => f.task_id \in IssuedIds
              /\ \A i \in 1..Len(f.log) :
                    f.log[i].ev = "GET" => f.log[i].what = f.task_id
              /\ Queries(f.log) > 0 => f.task_id # <<>>
              /\ (f.pc = "returned" /\ IsSuccess(f.outcome)) => f.ret.task_id = f.task_id
              /\ \A q \in Callers \ {p} :
                    LET g == fr[q]
                    IN g.op = "extract_markdown" =>
                          /\ f.task_id # <<>> => g.task_id # f.task_id
                          /\ (SameAnswers(f, g) /\ f.pc = "returned" /\ g.pc = "returned") =>
                                /\ f.outcome = g.outcome
                                /\ f.ret.content = g.ret.content
                                /\ f.ret.pages = g.ret.pages
C15_Witness ==
    /\ fr[1].op = "extract_markdown" /\ fr[2].op = "extract_markdown"
    /\ fr[1].task_id = TaskIdOf(2) /\ fr[2].task_id = TaskIdOf(1)
    /\ fr[1].seen = <<"accepted", "progress", "done">> /\ IsSuccess(fr[1].outcome)
    /\ fr[1].ret.task_id = TaskIdOf(2) /\ fr[1].ret.content = "# Inline"
    /\ fr[2].seen = <<"accepted", "progress", "failed">> /\ IsTaskFailure(fr[2].outcome)

\* C17: under any interleaving of close() with the requests of concurrent
\* lifecycles, every pooled connection the client has created and that is
\* still open is the one the client references (so that a later close()
\* closes it): no open connection is left unreferenced.
C17_NoLeakedConnection ==
    \A c \in 1..Len(conns) : conns[c] = "open" => _client = c

====
